---- MODULE Spec2Model ----
(***************************************************************************)
(* A model of src/data.py: the FlightData accessor, its four lookups, the  *)
(* query helper _execute_query with its two except clauses, and __del__.   *)
(*                                                                         *)
(* The backing store (tables flights and airlines) is read-only: it is     *)
(* chosen in Init and never changes.  ID is the key of both tables.  A     *)
(* flights row may carry an AIRLINE value that no airlines row has: the    *)
(* repository declares no foreign key.  Columns that no WHERE, ON or ORDER *)
(* BY clause reads and no claim mentions (DESTINATION_AIRPORT and the      *)
(* other passive columns of flights.* ) are left out of the rows.          *)
(*                                                                         *)
(* Strings the code inspects character by character (carrier names, the    *)
(* free-text input) are sequences of one-character strings.  A nullable    *)
(* column holds NULL or Val(n).  SQL conditions are three-valued: "T", "F" *)
(* or "U" (unknown); WHERE keeps the rows whose condition is "T".          *)
(***************************************************************************)
EXTENDS Integers, Sequences, FiniteSets, TLC

\* ------------------------------------------------------------------ bounds
\* Flight identifiers of the store are 1..MaxFlights.
MaxFlights == 2
\* The free-text input of get_delayed_flights_by_airline has at most MaxLen characters.
MaxLen == 2
\* __del__ is invoked at most MaxDel times on one accessor.
MaxDel == 2

\* ------------------------------------------------------ program constants
\* "DEPARTURE_DELAY >= 20" of the three delayed-flight templates.
DelayThreshold == 20

VARIABLES
    flights,     \* table flights: a set of rows, ID unique
    airlines,    \* table airlines: a set of rows, ID unique
    ctor,        \* __init__: "none" (not run), "returned" or "raised"
    engine,      \* TRUE when the attribute self._engine is set
    idle,        \* connections the engine's pool holds, not checked out
    checkedOut,  \* connections checked out of the pool
    pc,          \* position of the lookup in progress: "idle" when none is, "done"
                 \* when it has just returned or raised
    op,          \* the lookup last called
    args,        \* its arguments
    params,      \* the parameter dictionary it built
    cursor,      \* the rows the executed statement selected
    fetched,     \* results.fetchall()
    result,      \* what the lookup returned
    outcome,     \* of the lookup: "none", "pending", "returned" or "raised"
    fault,       \* the fault that hit the constructor or the lookup, or NoFault
    dels,        \* invocations of __del__ so far
    delOutcome   \* of the last __del__: "none", "returned" or "raised"

vars == <<flights, airlines, ctor, engine, idle, checkedOut, pc, op, args, params,
          cursor, fetched, result, outcome, fault, dels, delOutcome>>

store == <<flights, airlines>>
call == <<op, args, params, cursor, fetched, result, outcome>>

\* ------------------------------------------------------------- SQL values
NULL == {}
Val(n) == {n}
Num(v) == CHOOSE n \in v : TRUE

\* COALESCE(v, d)
Coalesce(v, d) == IF v = NULL THEN Val(d) ELSE v

\* A number used as a condition: NULL is unknown, 0 is false, the rest true.
Truth(v) == IF v = NULL THEN "U" ELSE IF Num(v) = 0 THEN "F" ELSE "T"

\* v >= n
Ge(v, n) == IF v = NULL THEN "U" ELSE IF Num(v) >= n THEN "T" ELSE "F"

\* c = x for a non-null column and a bound parameter
Eq(c, x) == IF c = x THEN "T" ELSE "F"

\* a AND b
And3(a, b) ==
    IF a = "F" \/ b = "F" THEN "F"
    ELSE IF a = "U" \/ b = "U" THEN "U"
    ELSE "T"

\* ------------------------------------------------------------ SQL strings
LowerChar(c) == IF c = "A" THEN "a" ELSE IF c = "B" THEN "b" ELSE c

\* lower(s)
Lower(s) == [i \in DOMAIN s |-> LowerChar(s[i])]

\* s LIKE p: '%' matches any run of characters, '_' any one character, every
\* other character itself.
RECURSIVE Like(_, _)
Like(s, p) ==
    IF p = <<>> THEN s = <<>>
    ELSE IF Head(p) = "%" THEN Like(s, Tail(p)) \/ (s # <<>> /\ Like(Tail(s), p))
    ELSE IF s = <<>> THEN FALSE
    ELSE IF Head(p) = "_" THEN Like(Tail(s), Tail(p))
    ELSE Head(s) = Head(p) /\ Like(Tail(s), Tail(p))

\* ------------------------------------------------------------- the store
FlightIds == 1..MaxFlights
AirlineIds == {1, 2}
Airports == {"ATL", "JFK"}
Days == {1, 2}
Months == {1, 2}
Years == {2015, 2016}
Delays == {NULL, Val(5), Val(DelayThreshold), Val(35)}
CarrierNames == {<<"A", "b">>, <<"b", "a">>, <<"B">>, <<"a", "_">>}

FlightRow(i, b) ==
    [ID |-> i, AIRLINE |-> b.AIRLINE, ORIGIN_AIRPORT |-> b.ORIGIN_AIRPORT,
     DEPARTURE_DELAY |-> b.DEPARTURE_DELAY, DAY |-> b.DAY, MONTH |-> b.MONTH,
     YEAR |-> b.YEAR]

\* The flights tables whose rows have their columns (all but ID) in Bodies.
FlightTables(Bodies) ==
    UNION {{{FlightRow(i, f[i]) : i \in S} : f \in [S -> Bodies]} : S \in SUBSET FlightIds}

\* The airlines tables: every key of Keys, and any keys of AirlineIds besides,
\* each with a name of Names.
AirlineTables(Keys, Names) ==
    UNION {{{[ID |-> k, AIRLINE |-> f[k]] : k \in S} : f \in [S -> Names]} :
           S \in {T \in SUBSET AirlineIds : Keys \subseteq T}}

\* ------------------------------------------------------ the SQL templates
\* flights JOIN airlines ON flights.airline = airlines.id (an inner join)
Join == {j \in flights \X airlines : j[1].AIRLINE = j[2].ID}

\* The projection of QUERY_FLIGHT_BY_ID: flights.*, airlines.airline,
\* flights.ID as FLIGHT_ID, flights.DEPARTURE_DELAY as DELAY.
FlightDetails(j) ==
    [ID |-> j[1].ID, AIRLINE |-> j[1].AIRLINE, ORIGIN_AIRPORT |-> j[1].ORIGIN_AIRPORT,
     DEPARTURE_DELAY |-> j[1].DEPARTURE_DELAY, DAY |-> j[1].DAY, MONTH |-> j[1].MONTH,
     YEAR |-> j[1].YEAR, airline |-> j[2].AIRLINE, FLIGHT_ID |-> j[1].ID,
     DELAY |-> j[1].DEPARTURE_DELAY]

\* The projection of the three delayed-flight templates: f.id, f.ORIGIN_AIRPORT,
\* a.AIRLINE, f.DEPARTURE_DELAY AS DELAY.
DelayedFlight(j) ==
    [id |-> j[1].ID, ORIGIN_AIRPORT |-> j[1].ORIGIN_AIRPORT, AIRLINE |-> j[2].AIRLINE,
     DELAY |-> j[1].DEPARTURE_DELAY]

\* COALESCE(f.DEPARTURE_DELAY, 0) AND ... AND f.DEPARTURE_DELAY >= 20
Delayed(f) ==
    And3(Truth(Coalesce(f.DEPARTURE_DELAY, 0)), Ge(f.DEPARTURE_DELAY, DelayThreshold))

QUERY_FLIGHT_BY_ID_NoWhere(p) == {FlightDetails(j) : j \in Join}

QUERY_FLIGHT_BY_ID(p) ==
    {FlightDetails(j) : j \in {k \in Join : Eq(k[1].ID, p.id) = "T"}}

QUERY_FLIGHT_BY_DATE_NoThreshold(p) ==
    {DelayedFlight(j) : j \in {k \in Join :
        And3(Truth(Coalesce(k[1].DEPARTURE_DELAY, 0)),
             And3(Eq(k[1].DAY, p.day),
                  And3(Eq(k[1].MONTH, p.month), Eq(k[1].YEAR, p.year)))) = "T"}}

QUERY_FLIGHT_BY_DATE_NoMonth(p) ==
    {DelayedFlight(j) : j \in {k \in Join :
        And3(Truth(Coalesce(k[1].DEPARTURE_DELAY, 0)),
             And3(Eq(k[1].DAY, p.day),
                  And3(Eq(k[1].YEAR, p.year),
                       Ge(k[1].DEPARTURE_DELAY, DelayThreshold)))) = "T"}}

QUERY_FLIGHT_BY_DATE(p) ==
    {DelayedFlight(j) : j \in {k \in Join :
        And3(Truth(Coalesce(k[1].DEPARTURE_DELAY, 0)),
             And3(Eq(k[1].DAY, p.day),
                  And3(Eq(k[1].MONTH, p.month),
                       And3(Eq(k[1].YEAR, p.year),
                            Ge(k[1].DEPARTURE_DELAY, DelayThreshold))))) = "T"}}

QUERY_FLIGHT_BY_AIRLINE_NoLowerParam(p) ==
    {DelayedFlight(j) : j \in {k \in Join :
        And3(Delayed(k[1]),
             IF Like(Lower(k[2].AIRLINE), p.airline) THEN "T" ELSE "F") = "T"}}

QUERY_FLIGHT_BY_AIRLINE(p) ==
    {DelayedFlight(j) : j \in {k \in Join :
        And3(Delayed(k[1]),
             IF Like(Lower(k[2].AIRLINE), Lower(p.airline)) THEN "T" ELSE "F") = "T"}}

QUERY_FLIGHT_BY_ORIGIN_AIRPORT(p) ==
    {DelayedFlight(j) : j \in {k \in Join :
        And3(Delayed(k[1]), Eq(k[1].ORIGIN_AIRPORT, p.origin_airport)) = "T"}}

\* ORDER BY DEPARTURE_DELAY DESC: a may stand before b.  NULL sorts lowest.
DescOrder(a, b) == b = NULL \/ (a # NULL /\ Num(a) >= Num(b))

\* The orders in which a statement may hand out the rows it selected: any order
\* without ORDER BY, any order with non-increasing DELAY with it (the order of
\* rows of equal DELAY is the store's choice).
RowOrders(rows, ordered) ==
    {s \in [1..Cardinality(rows) -> rows] :
        /\ \A i, k \in DOMAIN s : i # k => s[i] # s[k]
        /\ ordered => \A i, k \in DOMAIN s : i < k => DescOrder(s[i].DELAY, s[k].DELAY)}

\* connection.execute(text(query), params): the rows the statement selects.
Selected(o, p) ==
    CASE o = "get_flight_by_id" -> QUERY_FLIGHT_BY_ID(p)
      [] o = "get_flights_by_date" -> QUERY_FLIGHT_BY_DATE(p)
      [] o = "get_delayed_flights_by_airline" -> QUERY_FLIGHT_BY_AIRLINE(p)
      [] o = "get_delayed_flights_by_airport" -> QUERY_FLIGHT_BY_ORIGIN_AIRPORT(p)

Ordered(o) == o # "get_flight_by_id"

\* ------------------------------------------------------------ the inputs
InputChars == {"a", "A", "%", "_"}
Texts == UNION {[1..n -> InputChars] : n \in 0..MaxLen}
Str(t) == [type |-> "str", val |-> t]
\* An argument that is no string: "%" + None raises TypeError.
NotAString == [type |-> "NoneType", val |-> <<>>]
AirlineInputs == {Str(t) : t \in Texts} \cup {NotAString}
IdInputs == 0..MaxFlights
AirportInputs == Airports \cup {"XXX"}

\* ------------------------------------------------------------- the faults
NoFault == [site |-> "none", kind |-> "none"]
\* What a failing step raises: a store-level fault (a dropped connection, a
\* failure to acquire one, an SQL error) or another runtime fault.
FaultKinds == {"SQLAlchemyError", "Exception"}
QuerySites == {"connect", "execute", "fetchall", "close"}

\* ------------------------------------------------------------------ Init
InitWith(Flights, Airlines) ==
    /\ flights \in Flights
    /\ airlines \in Airlines
    /\ ctor = "none"
    /\ engine = FALSE
    /\ idle = 0
    /\ checkedOut = 0
    /\ pc = "idle"
    /\ op = "none"
    /\ args = <<>>
    /\ params = <<>>
    /\ cursor = {}
    /\ fetched = <<>>
    /\ result = <<>>
    /\ outcome = "none"
    /\ fault = NoFault
    /\ dels = 0
    /\ delOutcome = "none"

\* -------------------------------------------------------------- __init__
\* self._engine = create_engine(db_uri).  A fault of create_engine leaves the
\* attribute unset and goes to the caller: __init__ has no handler.
Construct ==
    /\ ctor = "none"
    /\ \/ /\ engine' = TRUE
          /\ ctor' = "returned"
          /\ fault' = NoFault
       \/ \E k \in FaultKinds :
            /\ engine' = FALSE
            /\ ctor' = "raised"
            /\ fault' = [site |-> "create_engine", kind |-> k]
    /\ UNCHANGED <<store, idle, checkedOut, pc, call, dels, delOutcome>>

\* ------------------------------------------------------------ the lookups
\* A lookup is called on a constructed accessor with no lookup in progress.
Callable == ctor = "returned" /\ pc = "idle" /\ dels = 0

\* The method built its parameters and entered _execute_query.
Enter(o, a, p) ==
    /\ op' = o
    /\ args' = a
    /\ params' = p
    /\ cursor' = {}
    /\ fetched' = <<>>
    /\ result' = <<>>
    /\ outcome' = "pending"
    /\ fault' = NoFault
    /\ pc' = "connect"
    /\ UNCHANGED <<store, ctor, engine, idle, checkedOut, dels, delOutcome>>

\* A fault while the method builds its parameters, handled as inside the try.
ParamFaultCaught(o, a, k) ==
    /\ op' = o
    /\ args' = a
    /\ params' = <<>>
    /\ cursor' = {}
    /\ fetched' = <<>>
    /\ result' = <<>>
    /\ outcome' = "returned"
    /\ fault' = [site |-> "params", kind |-> k]
    /\ pc' = "done"
    /\ UNCHANGED <<store, ctor, engine, idle, checkedOut, dels, delOutcome>>

\* A fault while the method builds its parameters: the line is outside the try
\* of _execute_query, so the fault leaves the method.
ParamFault(o, a, k) ==
    /\ op' = o
    /\ args' = a
    /\ params' = <<>>
    /\ cursor' = {}
    /\ fetched' = <<>>
    /\ result' = <<>>
    /\ outcome' = "raised"
    /\ fault' = [site |-> "params", kind |-> k]
    /\ pc' = "done"
    /\ UNCHANGED <<store, ctor, engine, idle, checkedOut, dels, delOutcome>>

get_flight_by_id ==
    /\ Callable
    /\ \E flight_id \in IdInputs :
         Enter("get_flight_by_id", [flight_id |-> flight_id], [id |-> flight_id])

get_flights_by_date ==
    /\ Callable
    /\ \E day \in Days, month \in Months, year \in Years :
         Enter("get_flights_by_date", [day |-> day, month |-> month, year |-> year],
               [day |-> day, month |-> month, year |-> year])

get_delayed_flights_by_airline ==
    /\ Callable
    /\ \E airline \in AirlineInputs :
         IF airline.type = "str"
         THEN Enter("get_delayed_flights_by_airline", [airline |-> airline],
                    [airline |-> <<"%">> \o airline.val \o <<"%">>])
         ELSE ParamFault("get_delayed_flights_by_airline", [airline |-> airline],
                         "Exception")

get_delayed_flights_by_airport ==
    /\ Callable
    /\ \E airport_input \in AirportInputs :
         Enter("get_delayed_flights_by_airport", [airport_input |-> airport_input],
               [origin_airport |-> airport_input])

\* -------------------------------------------------------- _execute_query
\* A handler that lets the store-level faults through.
CaughtGenericOnly(k) == k = "Exception"

\* except SQLAlchemyError / except Exception: the faults a handler takes.
Caught(k) == k \in {"SQLAlchemyError", "Exception"}

\* A fault raised inside the try at `site`: a handler prints it and returns [],
\* and a fault no handler takes leaves the method.
Except(site, k) ==
    /\ fault' = [site |-> site, kind |-> k]
    /\ pc' = "done"
    /\ IF Caught(k)
       THEN result' = <<>> /\ outcome' = "returned"
       ELSE result' = result /\ outcome' = "raised"

\* Leaving the with block on a fault without closing the connection.
LeakOnFault == UNCHANGED <<idle, checkedOut>>

\* Leaving the with block on a fault: the connection is closed (checked in).
ReleaseOnFault == checkedOut' = checkedOut - 1 /\ idle' = idle + 1

\* with self._engine.connect() as connection: a pooled connection is checked
\* out (an idle one, or a new one), or the acquisition fails.
Connect ==
    /\ pc = "connect"
    /\ \/ /\ checkedOut' = checkedOut + 1
          /\ idle' = IF idle > 0 THEN idle - 1 ELSE 0
          /\ pc' = "execute"
          /\ UNCHANGED <<result, outcome, fault>>
       \/ \E k \in FaultKinds :
            /\ Except("connect", k)
            /\ UNCHANGED <<idle, checkedOut>>
    /\ UNCHANGED <<store, ctor, engine, op, args, params, cursor, fetched, dels, delOutcome>>

\* results = connection.execute(text(query), params)
Execute ==
    /\ pc = "execute"
    /\ \/ /\ cursor' = Selected(op, params)
          /\ pc' = "fetchall"
          /\ UNCHANGED <<result, outcome, fault, idle, checkedOut>>
       \/ \E k \in FaultKinds :
            /\ Except("execute", k)
            /\ ReleaseOnFault
            /\ UNCHANGED cursor
    /\ UNCHANGED <<store, ctor, engine, op, args, params, fetched, dels, delOutcome>>

\* results.fetchall()
Fetchall ==
    /\ pc = "fetchall"
    /\ \/ /\ fetched' \in RowOrders(cursor, Ordered(op))
          /\ pc' = "close"
          /\ UNCHANGED <<result, outcome, fault, idle, checkedOut>>
       \/ \E k \in FaultKinds :
            /\ Except("fetchall", k)
            /\ ReleaseOnFault
            /\ UNCHANGED fetched
    /\ UNCHANGED <<store, ctor, engine, op, args, params, cursor, dels, delOutcome>>

\* return results.fetchall(), through the end of the with block: the connection
\* is checked in and the rows returned; a connection whose close fails is
\* discarded by the pool, and the fault is raised inside the try.
Close ==
    /\ pc = "close"
    /\ \/ /\ checkedOut' = checkedOut - 1
          /\ idle' = idle + 1
          /\ result' = fetched
          /\ outcome' = "returned"
          /\ pc' = "done"
          /\ UNCHANGED fault
       \/ \E k \in FaultKinds :
            /\ Except("close", k)
            /\ checkedOut' = checkedOut - 1
            /\ idle' = idle
    /\ UNCHANGED <<store, ctor, engine, op, args, params, cursor, fetched, dels, delOutcome>>

\* The lookup is over: its caller has the rows, or the fault, and the accessor
\* waits for the next call.
Return ==
    /\ pc = "done"
    /\ pc' = "idle"
    /\ op' = "none"
    /\ args' = <<>>
    /\ params' = <<>>
    /\ cursor' = {}
    /\ fetched' = <<>>
    /\ result' = <<>>
    /\ outcome' = "none"
    /\ fault' = NoFault
    /\ UNCHANGED <<store, ctor, engine, idle, checkedOut, dels, delOutcome>>

\* --------------------------------------------------------------- __del__
\* self._engine.dispose(): the pool's idle connections are closed.  On an
\* accessor whose __init__ raised, the attribute is unset and the attribute
\* lookup raises AttributeError.
Del ==
    /\ ctor # "none"
    /\ pc = "idle"
    /\ dels < MaxDel
    /\ dels' = dels + 1
    /\ IF engine
       THEN idle' = 0 /\ delOutcome' = "returned"
       ELSE idle' = idle /\ delOutcome' = "raised"
    /\ UNCHANGED <<store, ctor, engine, checkedOut, pc, call, fault>>

Next ==
    \/ Construct
    \/ get_flight_by_id
    \/ get_flights_by_date
    \/ get_delayed_flights_by_airline
    \/ get_delayed_flights_by_airport
    \/ Connect
    \/ Execute
    \/ Fetchall
    \/ Close
    \/ Return
    \/ Del

\* --------------------------------------------------------- specifications
BaseRow ==
    [AIRLINE |-> 1, ORIGIN_AIRPORT |-> "ATL", DEPARTURE_DELAY |-> Val(35),
     DAY |-> 1, MONTH |-> 1, YEAR |-> 2015]

\* The accessor's life over stores whose flights differ in origin and delay.
Init ==
    InitWith(FlightTables({[BaseRow EXCEPT !.ORIGIN_AIRPORT = a, !.DEPARTURE_DELAY = d] :
                              a \in Airports, d \in {Val(5), Val(35)}}),
             AirlineTables({1}, {<<"A", "b">>}))

Spec == Init /\ [][Next]_vars

\* Lookups by identifier: flights that differ in carrier key and delay, over
\* airlines tables that may lack either carrier.
InitById ==
    InitWith(FlightTables({[BaseRow EXCEPT !.AIRLINE = a, !.DEPARTURE_DELAY = d] :
                              a \in AirlineIds, d \in {NULL, Val(35)}}),
             AirlineTables({}, {<<"A", "b">>}))

SpecById == InitById /\ [][Next]_vars

\* Lookups by date: flights of the base date that differ in delay, delayed
\* flights of other days, months and years, and one flight of carrier 2, over
\* airlines tables that may lack carrier 2.
InitByDate ==
    InitWith(FlightTables({[BaseRow EXCEPT !.DEPARTURE_DELAY = d] : d \in Delays}
                          \cup {[BaseRow EXCEPT !.DAY = 2], [BaseRow EXCEPT !.MONTH = 2],
                                [BaseRow EXCEPT !.YEAR = 2016],
                                [BaseRow EXCEPT !.AIRLINE = 2]}),
             AirlineTables({1}, {<<"A", "b">>}))

SpecByDate == InitByDate /\ [][Next]_vars

\* Lookups by carrier name: flights that differ in carrier key and delay, over
\* airlines tables that differ in the name of carrier 1.
InitByAirline ==
    InitWith(FlightTables({[BaseRow EXCEPT !.AIRLINE = a, !.DEPARTURE_DELAY = d] :
                              a \in AirlineIds, d \in {Val(5), Val(35)}}),
             {t \in AirlineTables({1, 2}, CarrierNames) :
                 \A r \in t : r.ID = 2 => r.AIRLINE = <<"B">>})

SpecByAirline == InitByAirline /\ [][Next]_vars

\* ------------------------------------------------------------ the claims
Range(s) == {s[i] : i \in DOMAIN s}

\* The lookup `o` has just ended.
Ended(o) == pc = "done" /\ op = o

\* The flights row of identifier i.
FlightOf(i) == CHOOSE f \in flights : f.ID = i

HasCarrier(f) == \E a \in airlines : a.ID = f.AIRLINE

OnDate(f, a) == f.DAY = a.day /\ f.MONTH = a.month /\ f.YEAR = a.year

\* t occurs in s as a run of consecutive characters.
Contains(s, t) == \E i \in 0..(Len(s) - Len(t)) : SubSeq(s, i + 1, i + Len(t)) = t

\* Two characters that are one letter in its two cases, and two strings that
\* differ only in the case of their letters.
CasePairs == {<<"a", "A">>, <<"b", "B">>}
SameLetter(c, d) == c = d \/ <<c, d>> \in CasePairs \/ <<d, c>> \in CasePairs
SameUpToCase(s, t) == Len(s) = Len(t) /\ \A i \in DOMAIN s : SameLetter(s[i], t[i])

\* C1, as stated: a get_flight_by_id that met no fault, called with an identifier
\* present in flights, returned exactly one record, whose identifier is the input.
C1_AsStated ==
    (Ended("get_flight_by_id") /\ fault = NoFault
        /\ \E f \in flights : f.ID = args.flight_id)
    => (outcome = "returned" /\ Len(result) = 1
        /\ result[1].ID = args.flight_id /\ result[1].FLIGHT_ID = args.flight_id)

\* C1, amended: a get_flight_by_id that met no fault, called with an identifier
\* present in flights whose row's AIRLINE is the ID of a row of airlines, returned
\* exactly one record, whose identifier is the input.
C1_OneRecordWhenCarrierKnown ==
    (Ended("get_flight_by_id") /\ fault = NoFault
        /\ \E f \in flights : f.ID = args.flight_id /\ HasCarrier(f))
    => (outcome = "returned" /\ Len(result) = 1
        /\ result[1].ID = args.flight_id /\ result[1].FLIGHT_ID = args.flight_id)

\* One record came back for a flight of a known carrier, out of a store that
\* holds a second flight of a known carrier.
C1_Witness ==
    /\ Ended("get_flight_by_id") /\ fault = NoFault
    /\ Len(result) = 1 /\ result[1].ID = args.flight_id
    /\ \E f \in flights : f.ID # args.flight_id /\ HasCarrier(f)

\* C2: get_flight_by_id called with an identifier absent from flights returned
\* an empty sequence.
C2_AbsentIdGivesEmpty ==
    (Ended("get_flight_by_id") /\ \A f \in flights : f.ID # args.flight_id)
    => (outcome = "returned" /\ result = <<>>)

\* An absent identifier was looked up without a fault in a store that holds a
\* flight of a known carrier.
C2_Witness ==
    /\ Ended("get_flight_by_id") /\ fault = NoFault
    /\ \A f \in flights : f.ID # args.flight_id
    /\ \E f \in flights : HasCarrier(f)

\* C3: every record get_flights_by_date returned has a non-null delay of at
\* least 20, and the records are in non-increasing order of delay.
C3_DelayedAndSorted ==
    Ended("get_flights_by_date")
    => /\ \A i \in DOMAIN result :
            result[i].DELAY # NULL /\ Num(result[i].DELAY) >= 20
       /\ \A i, k \in DOMAIN result :
            i < k => Num(result[i].DELAY) >= Num(result[k].DELAY)

\* Two records of different delays came back.
C3_Witness ==
    /\ Ended("get_flights_by_date")
    /\ Len(result) = 2 /\ result[1].DELAY # result[2].DELAY

\* C4: a store-level fault at any step of _execute_query, in any of the four
\* lookups, made the lookup return an empty sequence: it did not raise.
C4_StoreFaultGivesEmpty ==
    (pc = "done" /\ fault.site \in QuerySites /\ fault.kind = "SQLAlchemyError")
    => (outcome = "returned" /\ result = <<>>)

\* A store-level fault hit fetchall after the statement had selected rows.
C4_Witness ==
    /\ pc = "done" /\ fault = [site |-> "fetchall", kind |-> "SQLAlchemyError"]
    /\ cursor # {} /\ result = <<>>

\* C5: the records a get_delayed_flights_by_airline that met no fault returned
\* are the records the lookup selects for every input that differs from its
\* input only in letter case.
C5_CaseInsensitive ==
    (Ended("get_delayed_flights_by_airline") /\ fault = NoFault)
    => \A t \in Texts :
          SameUpToCase(args.airline.val, t)
          => Range(result) = QUERY_FLIGHT_BY_AIRLINE([airline |-> <<"%">> \o t \o <<"%">>])

\* The input "A" found a flight.
C5_Witness ==
    /\ Ended("get_delayed_flights_by_airline") /\ fault = NoFault
    /\ args.airline.val = <<"A">> /\ result # <<>>

\* C6, as stated: the flights a get_delayed_flights_by_airline that met no fault
\* returned are exactly the flights with delay >= 20 whose carrier name contains
\* the input as a literal substring, compared without regard to case.
C6_AsStated ==
    (Ended("get_delayed_flights_by_airline") /\ fault = NoFault)
    => {r.id : r \in Range(result)}
       = {j[1].ID : j \in {k \in Join :
            /\ k[1].DEPARTURE_DELAY # NULL
            /\ Num(k[1].DEPARTURE_DELAY) >= 20
            /\ Contains(Lower(k[2].AIRLINE), Lower(args.airline.val))}}

\* C7: a fault of create_engine left __init__ as a fault, and a fault while a
\* lookup built its parameters left the lookup as a fault: neither was turned
\* into an empty result.
C7_EarlyFaultsPropagate ==
    /\ fault.site = "create_engine" => ctor = "raised"
    /\ fault.site = "params" => outcome = "raised"

\* get_delayed_flights_by_airline was called with an argument that is no string.
C7_Witness ==
    /\ Ended("get_delayed_flights_by_airline")
    /\ args.airline = NotAString /\ fault.site = "params"

\* C8: when no lookup is in progress, no connection is checked out of the pool.
C8_NoConnectionHeld ==
    pc \in {"idle", "done"} => checkedOut = 0

\* A lookup ended on a fault of fetchall, with its connection checked in.
C8_Witness ==
    /\ pc = "done" /\ fault.site = "fetchall" /\ checkedOut = 0 /\ idle > 0

\* C9, as stated: every invocation of __del__, on an accessor in any state,
\* raised no fault and left the pool with no connection.
C9_AsStated ==
    dels > 0 => (delOutcome = "returned" /\ idle = 0)

\* C10, as stated: after a get_flights_by_date that met no fault, every stored
\* flight with delay >= 20 of the given date is in the result, and no flight of
\* another day, month or year is.
C10_AsStated ==
    (Ended("get_flights_by_date") /\ fault = NoFault)
    => /\ \A f \in flights :
            (OnDate(f, args) /\ f.DEPARTURE_DELAY # NULL /\ Num(f.DEPARTURE_DELAY) >= 20)
            => \E r \in Range(result) : r.id = f.ID
       /\ \A r \in Range(result) : OnDate(FlightOf(r.id), args)

\* C10, amended: after a get_flights_by_date that met no fault, every stored
\* flight with delay >= 20 of the given date whose AIRLINE is the ID of a row of
\* airlines is in the result, and no flight of another day, month or year is.
C10_ExactDateWhenCarrierKnown ==
    (Ended("get_flights_by_date") /\ fault = NoFault)
    => /\ \A f \in flights :
            (OnDate(f, args) /\ f.DEPARTURE_DELAY # NULL /\ Num(f.DEPARTURE_DELAY) >= 20
                /\ HasCarrier(f))
            => \E r \in Range(result) : r.id = f.ID
       /\ \A r \in Range(result) : OnDate(FlightOf(r.id), args)

\* A delayed flight of the given date came back and a delayed flight of another
\* date did not.
C10_Witness ==
    /\ Ended("get_flights_by_date") /\ fault = NoFault
    /\ Len(result) = 1
    /\ \E f \in flights :
          /\ f.ID # result[1].id /\ ~OnDate(f, args) /\ HasCarrier(f)
          /\ f.DEPARTURE_DELAY # NULL /\ Num(f.DEPARTURE_DELAY) >= 20

====
